---- MODULE Spec2Model ----
(***************************************************************************)
(* The alignment and item-lifecycle state manager of template-workbench:   *)
(* the AlignmentViewer class (src/lib/core/AlignmentViewer.ts) driven by   *)
(* the postMessage bridge (src/embed/bridge.ts and the later copy of it    *)
(* kept in src/index.ts).                                                  *)
(*                                                                         *)
(* Everything runs on one JavaScript event loop.  A command is handled     *)
(* from its arrival up to its first `await` in one step; every `await` on  *)
(* the rendering collaborator is a suspend point, and the code between two *)
(* suspend points is one atomic step.  A suspended command is a record in  *)
(* `tasks`; the collaborator's answer (it returns or it throws) is chosen  *)
(* when the task resumes.                                                  *)
(***************************************************************************)
EXTENDS Integers, Sequences, FiniteSets, TLC

\* ------------------------------------------------------------------ bounds

\* Commands that may be suspended at an await at the same time.
MaxInFlight == 2

\* Events of the environment (a command posted by the host, an await rejected
\* by the collaborator) in one behaviour of Spec.
MaxEvents == 2

\* The same for SeqSpec, where commands run one at a time.
MaxSeqEvents == 3

\* The same for LoadSpec, where the host posts load commands only.
MaxLoadEvents == 2

\* The same for AsyncSpec, where a few commands overlap.
MaxAsyncEvents == 3

\* The same for FailSpec, where the collaborator rejects until a load gives up.
MaxFailEvents == 4

\* The same for DisposeSpec, where the viewer may be disposed between commands.
MaxDisposeEvents == 3

\* The largest magnitude of a relative threshold IsoSpec converts.
MaxThreshold == 30

\* The same for RefSpec, where structures are loaded and deleted.
MaxRefEvents == 6

\* The same for AnchorSpec, where structures and volumes are loaded and deleted.
MaxAnchorEvents == 4

\* The same for RaceSpec, where two loadStructure commands overlap.
MaxRaceEvents == 3

\* ------------------------------------------------------- program constants

Null == "null"

COLOR_PALETTE ==
    << 6056896, 7964363, 10463450, 4367861, 6600182, 9489145,
       2541274, 5099745, 8445674, 2533018, 5093036, 8440772,
       6732650, 8505220, 10868391, 10275941, 11457921, 12968357,
       16754470, 16758605, 16764032, 16772696, 16773494, 16774557,
       15684432, 15037299, 15702682, 15483002, 15753874, 16027569,
       11225020, 12216520, 13538264, 8280002, 9795021, 11771355 >>

\* Labels of getStructureSources, in the order loadStructure tries them.
getStructureSources == << "bcif", "mmcif", "pdb" >>

\* options.isoValue defaults to 1.5 sigma; thresholds are kept in tenths.
DefaultIsoValue == 15

\* --------------------------------------------------------------- inputs

\* pdbId arguments of loadStructure; the item identifier is the upper-cased id.
PdbIds == { "a", "A", "B" }

toUpperCase(s) == IF s = "a" THEN "A" ELSE s

\* File names that end the url of load_structure / load_volume commands, and
\* the formats a load_structure command can name.
UrlNames == { "M" }

UrlFormats == { "pdb", "mmcif" }

\* The identifiers the commands of AsyncSpec name.
AsyncIds == { "A", "M" }

\* The file names RefSpec loads structures from.
RefNames == { "A", "B", "C" }

\* The file names AnchorSpec loads structures from, and the identifiers its
\* deleteItem commands name.
AnchorNames == { "A", "B", "C" }

AnchorIds == { "A", "B", "C", "M" }

\* The pdbId arguments of the loadStructure commands of RaceSpec.
RaceIds == { "A", "B" }

\* emdbId arguments of loadEmdbMap and the identifier loadEmdbMap derives.
EmdbIds == { "1" }

EmdbItemId(emdbId) == IF emdbId = "1" THEN "EMD-1" ELSE Null

\* Every identifier an item can carry.
ItemIds == { "A", "B", "C", "M", "EMD-1" }

\* Grid statistics a parsed volume can have (min, max, mean, sigma).
NormalGrid == [min |-> -2, max |-> 10, mean |-> 0, sigma |-> 2]

InvertedGrid == [min |-> -10, max |-> 2, mean |-> 0, sigma |-> 2]

Grids == { NormalGrid, InvertedGrid }

\* The minima and maxima of the grids InvSpec parses, and the relative
\* thresholds its callers pass as options.isoValue.
InvMins == { -10, -4, -2, 0 }

InvMaxs == { 0, 1, 2, 10 }

InvGrids == { [min |-> lo, max |-> hi, mean |-> 0, sigma |-> 2] : lo \in InvMins, hi \in InvMaxs }

InvIsoValues == { -20, 0, DefaultIsoValue, 20 }

\* Relative thresholds, and the means and non-zero deviations of the grids,
\* that IsoSpec converts with.
Thresholds == (0 - MaxThreshold) .. MaxThreshold

GridMeans == { -3, 0, 7 }

GridSigmas == { 1, 2, 5 }

\* Arguments of setColor and setIsoValue.
ColorArgs == { 16711680 }

IsoArgs == { 20 }

\* Action tags the bridge does not know.
UnknownActions == { "frobnicate" }

\* The two message handlers the repository holds.
BridgeVersions == { "embed", "index" }

\* -------------------------------------------------------------- state

VARIABLES
    plugin,                 \* AlignmentViewer.plugin is set (TRUE) or null
    bridge,                 \* Null until initBridge installs a handler, then its version
    referenceStructureId,   \* referenceStructure / referenceStructureId, or Null
    referenceVolumeId,      \* referenceVolume / referenceVolumeId, or Null
    referenceType,          \* "structure", "volume" or Null
    structureTransforms,    \* identifier -> "identity" | "aligned"
    loadedItems,            \* the Map: items in insertion order, one per identifier
    colorIndex,             \* the colour cursor
    tasks,                  \* commands suspended at an await, in issue order
    last,                   \* what the latest step did and what it posted
    loadsOk,                \* load commands that succeeded since construction / clear
    loadFailed,             \* some load command has failed since construction / clear
    spent                   \* commands taken and awaits rejected so far

vars == << plugin, bridge, referenceStructureId, referenceVolumeId, referenceType,
           structureTransforms, loadedItems, colorIndex, tasks, last,
           loadsOk, loadFailed, spent >>

viewerState == << referenceStructureId, referenceVolumeId, referenceType,
                  structureTransforms, loadedItems, colorIndex >>

\* ------------------------------------------------------------ the Map

Abs(x) == IF x < 0 THEN -x ELSE x

RemoveAt(s, i) == SubSeq(s, 1, i - 1) \o SubSeq(s, i + 1, Len(s))

Ids(items) == { items[k].id : k \in DOMAIN items }

Has(items, id) == id \in Ids(items)

IndexOf(items, id) == CHOOSE k \in DOMAIN items : items[k].id = id

Get(items, id) == items[IndexOf(items, id)]

\* A registry that appends on every write, like an array push.
MapSet_appends(items, item) == Append(items, item)

\* Map.set: a new key goes last, an existing key keeps its place.
MapSet(items, item) ==
    IF Has(items, item.id)
    THEN [items EXCEPT ![IndexOf(items, item.id)] = item]
    ELSE Append(items, item)

MapDelete(items, id) == SelectSeq(items, LAMBDA it : it.id # id)

\* Map.set / Map.delete on structureTransforms.
TransformSet(tr, id, m) == [k \in DOMAIN tr \cup {id} |-> IF k = id THEN m ELSE tr[k]]

TransformDelete(tr, id) == [k \in DOMAIN tr \ {id} |-> tr[k]]

NoTransforms == [k \in {} |-> "identity"]

getLoadedItems == loadedItems

getReferenceId == referenceStructureId

\* ------------------------------------------------------------ events

ItemsChanged(items) == [type |-> "itemsChanged", items |-> items]

ErrorEvent(action, message) == [type |-> "error", action |-> action, message |-> message]

StructureLoaded(item) == [type |-> "structureLoaded", item |-> item]

MapLoaded(item) == [type |-> "mapLoaded", item |-> item]

Ready == [type |-> "ready"]

\* The subscription run before the registry is written: it posts the
\* registry as it was.
notifyChange_beforeWrite(items) == << ItemsChanged(loadedItems) >>

\* notifyChange runs the bridge's subscription, which posts the snapshot.
notifyChange(items) == << ItemsChanged(items) >>

Step(action, id, outcome, events) ==
    [action |-> action, id |-> id, outcome |-> outcome, events |-> events]

\* ------------------------------------------------------------- tasks

\* What a suspended command holds before it has parsed a grid or has been
\* left with a detached item.
NoGrid == [min |-> 0, max |-> 0, mean |-> 0, sigma |-> 0]

NoItem == [type |-> Null]

\* A command suspended at an await of the method `op` it called.
Task(action, op, id) ==
    [action |-> action, op |-> op, id |-> id, pc |-> "acquire",
     src |-> 0, format |-> Null, isReference |-> FALSE, transform |-> Null,
     color |-> 0, isoValue |-> 0, grid |-> NoGrid, stale |-> FALSE, item |-> NoItem]

\* Methods that keep the item object they looked up across their await.
HoldsItem(t) == t.op \in { "setItemColor", "setMapIsoValue", "deleteItem" }

\* The object a suspended method holds: the registry's entry while that entry
\* is still the object it looked up, otherwise the object as it was when the
\* registry dropped it.
HeldItem(t) == IF t.stale THEN t.item ELSE Get(loadedItems, t.id)

\* The registry drops (deletes or overwrites) the entries of `ids`: every
\* method holding one of those objects keeps the object, now detached.
Detach(ts, ids) ==
    [k \in DOMAIN ts |->
        IF HoldsItem(ts[k]) /\ ~ts[k].stale /\ ts[k].id \in ids /\ Has(loadedItems, ts[k].id)
        THEN [ts[k] EXCEPT !.stale = TRUE, !.item = Get(loadedItems, ts[k].id)]
        ELSE ts[k]]

\* The handler takes a command: the listener is installed; limit[1] bounds the
\* commands suspended at the same time and limit[2] the
\* commands taken and awaits rejected in all.
Accepts(limit) ==
    /\ bridge # Null
    /\ Len(tasks) < limit[1]
    /\ spent < limit[2]
    /\ spent' = spent + 1

\* The collaborator rejects an await: limit[2] bounds these too.
Rejects(limit) ==
    /\ spent < limit[2]
    /\ spent' = spent + 1

\* The catch block posting a fixed tag in place of `cmd.action`.
Throw_dropsAction(action, id, message) ==
    last' = Step(action, id, "error", << ErrorEvent("unknown", message) >>)

\* The catch block of the bridge's handler.
Throw(action, id, message) ==
    last' = Step(action, id, "error", << ErrorEvent(action, message) >>)

IsLoad(action) == action \in { "loadStructure", "loadEmdbMap", "load_structure", "load_volume" }

\* ------------------------------------------------------- initialisation

Init ==
    /\ plugin = FALSE
    /\ bridge = Null
    /\ referenceStructureId = Null
    /\ referenceVolumeId = Null
    /\ referenceType = Null
    /\ structureTransforms = NoTransforms
    /\ loadedItems = << >>
    /\ colorIndex = 0
    /\ tasks = << >>
    /\ last = Step("new", Null, "done", << >>)
    /\ loadsOk = 0
    /\ loadFailed = FALSE
    /\ spent = 0

\* initBridge running its subscription once as it installs it, before ready.
initBridge_notifiesFirst(version) ==
    /\ bridge = Null
    /\ plugin' = TRUE
    /\ bridge' = version
    /\ last' = Step("initBridge", Null, "done", notifyChange(loadedItems) \o << Ready >>)
    /\ UNCHANGED << viewerState, tasks, loadsOk, loadFailed, spent >>

\* initBridge: createAlignmentViewer, the onChange subscription, the message
\* listener and the ready event.
initBridge(version) ==
    /\ bridge = Null
    /\ plugin' = TRUE
    /\ bridge' = version
    /\ last' = Step("initBridge", Null, "done", << Ready >>)
    /\ UNCHANGED << viewerState, tasks, loadsOk, loadFailed, spent >>

\* dispose, called by whoever holds the viewer initBridge returned, while no
\* command is in flight: the plugin is disposed and the field set to null.
dispose ==
    /\ bridge # Null
    /\ tasks = << >>
    /\ plugin' = FALSE
    /\ last' = Step("dispose", Null, "done", << >>)
    /\ UNCHANGED << bridge, viewerState, tasks, loadsOk, loadFailed, spent >>

\* ------------------------------------------------- commands without await

getNextColor == COLOR_PALETTE[(colorIndex % Len(COLOR_PALETTE)) + 1]

\* setItemVisibility notifying even when the lookup finds nothing.
setItemVisibility_notifiesAlways(limit, id, visible) ==
    /\ Accepts(limit)
    /\ IF plugin /\ Has(loadedItems, id)
       THEN /\ loadedItems' = [loadedItems EXCEPT ![IndexOf(loadedItems, id)].visible = visible]
            /\ last' = Step("setVisibility", id, "done", notifyChange(loadedItems'))
       ELSE /\ loadedItems' = loadedItems
            /\ last' = Step("setVisibility", id, "done", notifyChange(loadedItems'))
    /\ UNCHANGED << plugin, bridge, referenceStructureId, referenceVolumeId, referenceType,
                    structureTransforms, colorIndex, tasks, loadsOk, loadFailed >>

setItemVisibility(limit, id, visible) ==
    /\ Accepts(limit)
    /\ IF plugin /\ Has(loadedItems, id)
       THEN /\ loadedItems' = [loadedItems EXCEPT ![IndexOf(loadedItems, id)].visible = visible]
            /\ last' = Step("setVisibility", id, "done", notifyChange(loadedItems'))
       ELSE /\ loadedItems' = loadedItems
            /\ last' = Step("setVisibility", id, "ignored", << >>)
    /\ UNCHANGED << plugin, bridge, referenceStructureId, referenceVolumeId, referenceType,
                    structureTransforms, colorIndex, tasks, loadsOk, loadFailed >>

getItems(limit) ==
    /\ Accepts(limit)
    /\ last' = Step("getItems", Null, "done", << ItemsChanged(getLoadedItems) >>)
    /\ UNCHANGED << plugin, bridge, viewerState, tasks, loadsOk, loadFailed >>

\* A command whose action no case of the switch matches: the handler in
\* src/index.ts has a default case, the one in src/embed/bridge.ts has none.
unknownCommand(limit, action) ==
    /\ Accepts(limit)
    /\ last' = IF bridge = "index"
               THEN Step(action, Null, "error",
                         << ErrorEvent(action, << "Unknown command", action >>) >>)
               ELSE Step(action, Null, "ignored", << >>)
    /\ UNCHANGED << plugin, bridge, viewerState, tasks, loadsOk, loadFailed >>

\* ----------------------------------------------------- structure loads

\* The first-item test without its structure half: `!this.referenceVolume`.
isReference_ignoresStructure == referenceVolumeId = Null

\* const isReference = !this.referenceStructure && !this.referenceVolume
isReference == referenceStructureId = Null /\ referenceVolumeId = Null

IsStructureLoad(t) == t.op \in { "loadStructure", "loadStructureFromUrl" }

\* What the collaborator's rejection at suspend point pc reads like.
FailureMessage(t) ==
    IF t.op = "loadStructure"
    THEN << "Failed to load structure", getStructureSources[t.src], t.pc >>
    ELSE << "failed", t.pc >>

\* loadStructure: the plugin check, then the download of the first source.
loadStructure(limit, pdbId) ==
    /\ Accepts(limit)
    /\ IF plugin
       THEN /\ tasks' = Append(tasks, [Task("loadStructure", "loadStructure", toUpperCase(pdbId))
                                          EXCEPT !.src = 1, !.format = getStructureSources[1]])
            /\ last' = Step("loadStructure", toUpperCase(pdbId), "suspended", << >>)
            /\ UNCHANGED loadFailed
       ELSE /\ Throw("loadStructure", toUpperCase(pdbId), << "Viewer not initialized" >>)
            /\ loadFailed' = TRUE
            /\ UNCHANGED tasks
    /\ UNCHANGED << plugin, bridge, viewerState, loadsOk >>

\* loadStructureFromUrl: one source, named by the url; the label is the format.
loadStructureFromUrl(limit, name, format) ==
    /\ Accepts(limit)
    /\ IF plugin
       THEN /\ tasks' = Append(tasks, [Task("load_structure", "loadStructureFromUrl", name)
                                          EXCEPT !.format = format])
            /\ last' = Step("load_structure", name, "suspended", << >>)
            /\ UNCHANGED loadFailed
       ELSE /\ Throw("load_structure", name, << "Viewer not initialized" >>)
            /\ loadFailed' = TRUE
            /\ UNCHANGED tasks
    /\ UNCHANGED << plugin, bridge, viewerState, loadsOk >>

\* _processStructure from `const assignedColor = this.getNextColor()` to the
\* await of createStructureRepresentation.
AssignColor(i, t) ==
    /\ colorIndex' = colorIndex + 1
    /\ tasks' = [tasks EXCEPT ![i] = [t EXCEPT !.pc = "repr", !.color = getNextColor]]
    /\ last' = Step(t.action, t.id, "resumed", << >>)

\* The alignment fallback without `this.structureTransforms.set`.
alignmentFailed_recordsNothing(i, t) ==
    /\ structureTransforms' = structureTransforms
    /\ AssignColor(i, [t EXCEPT !.transform = "failed"])
    /\ UNCHANGED << referenceStructureId, referenceVolumeId, referenceType >>

\* computeAlignmentTransform returned null (superpose gave no result or a NaN
\* rmsd): the identity is recorded and _processStructure goes on to colour
\* and represent the structure.
alignmentFailed(i, t) ==
    /\ structureTransforms' = TransformSet(structureTransforms, t.id, "identity")
    /\ AssignColor(i, [t EXCEPT !.transform = "failed"])
    /\ UNCHANGED << referenceStructureId, referenceVolumeId, referenceType >>

\* The source is downloaded and parsed: _processStructure up to its first await.
structureAcquired(i) ==
    /\ i \in DOMAIN tasks
    /\ IsStructureLoad(tasks[i])
    /\ tasks[i].pc = "acquire"
    /\ LET t == tasks[i]
       IN IF isReference
          THEN \* the first item: it becomes the reference
               /\ referenceStructureId' = t.id
               /\ referenceType' = "structure"
               /\ structureTransforms' = TransformSet(structureTransforms, t.id, "identity")
               /\ AssignColor(i, [t EXCEPT !.isReference = TRUE])
               /\ UNCHANGED referenceVolumeId
          ELSE IF referenceStructureId # Null
          THEN \* computeAlignmentTransform: a transform, or null when superposition fails
               \/ /\ tasks' = [tasks EXCEPT ![i] = [t EXCEPT !.pc = "transform",
                                                             !.transform = "aligned"]]
                  /\ last' = Step(t.action, t.id, "resumed", << >>)
                  /\ UNCHANGED << referenceStructureId, referenceVolumeId, referenceType,
                                  structureTransforms, colorIndex >>
               \/ alignmentFailed(i, t)
          ELSE \* a volume is the anchor: centre on it when its data is there
               \/ /\ tasks' = [tasks EXCEPT ![i] = [t EXCEPT !.pc = "center"]]
                  /\ last' = Step(t.action, t.id, "resumed", << >>)
                  /\ UNCHANGED << referenceStructureId, referenceVolumeId, referenceType,
                                  structureTransforms, colorIndex >>
               \/ /\ AssignColor(i, t)
                  /\ UNCHANGED << referenceStructureId, referenceVolumeId, referenceType,
                                  structureTransforms >>
    /\ UNCHANGED << plugin, bridge, spent, loadedItems, loadsOk, loadFailed >>

\* applyStructureTransform returned: the transform is recorded.
structureTransformed(i) ==
    /\ i \in DOMAIN tasks
    /\ IsStructureLoad(tasks[i])
    /\ tasks[i].pc = "transform"
    /\ structureTransforms' = TransformSet(structureTransforms, tasks[i].id, tasks[i].transform)
    /\ AssignColor(i, tasks[i])
    /\ UNCHANGED << plugin, bridge, spent, referenceStructureId, referenceVolumeId, referenceType,
                    loadedItems, loadsOk, loadFailed >>

\* centerStructureOnVolume returned (it swallows its own failures).
structureCentered(i) ==
    /\ i \in DOMAIN tasks
    /\ IsStructureLoad(tasks[i])
    /\ tasks[i].pc = "center"
    /\ AssignColor(i, tasks[i])
    /\ UNCHANGED << plugin, bridge, spent, referenceStructureId, referenceVolumeId, referenceType,
                    structureTransforms, loadedItems, loadsOk, loadFailed >>

StructureItem(t) ==
    [type |-> "structure", id |-> t.id, visible |-> TRUE, color |-> t.color,
     format |-> t.format, isReference |-> t.isReference]

\* The structure cases of the handler posting the event of the volume cases.
structureRepresented_postsMapLoaded(i) ==
    /\ i \in DOMAIN tasks
    /\ IsStructureLoad(tasks[i])
    /\ tasks[i].pc = "repr"
    /\ LET t == tasks[i]
           item == StructureItem(t)
       IN /\ loadedItems' = MapSet(loadedItems, item)
          /\ tasks' = Detach(RemoveAt(tasks, i), {t.id})
          /\ last' = Step(t.action, t.id, "done",
                          notifyChange(loadedItems') \o << MapLoaded(item) >>)
    /\ loadsOk' = loadsOk + 1
    /\ UNCHANGED << plugin, bridge, spent, referenceStructureId, referenceVolumeId, referenceType,
                    structureTransforms, colorIndex, loadFailed >>

\* createStructureRepresentation returned: the item is registered, observers
\* are notified, and the bridge posts structureLoaded.
structureRepresented(i) ==
    /\ i \in DOMAIN tasks
    /\ IsStructureLoad(tasks[i])
    /\ tasks[i].pc = "repr"
    /\ LET t == tasks[i]
           item == StructureItem(t)
       IN /\ loadedItems' = MapSet(loadedItems, item)
          /\ tasks' = Detach(RemoveAt(tasks, i), {t.id})
          /\ last' = Step(t.action, t.id, "done",
                          notifyChange(loadedItems') \o << StructureLoaded(item) >>)
    /\ loadsOk' = loadsOk + 1
    /\ UNCHANGED << plugin, bridge, spent, referenceStructureId, referenceVolumeId, referenceType,
                    structureTransforms, colorIndex, loadFailed >>

\* An await of a loadStructure attempt rejected and another source is left:
\* the catch in the loop goes on to download the next source.
sourceFailed(limit, i) ==
    /\ i \in DOMAIN tasks
    /\ Rejects(limit)
    /\ tasks[i].op = "loadStructure"
    /\ tasks[i].pc \in { "acquire", "transform", "repr" }
    /\ tasks[i].src < Len(getStructureSources)
    /\ LET t == tasks[i]
       IN /\ tasks' = [tasks EXCEPT ![i] = [t EXCEPT !.pc = "acquire", !.src = t.src + 1,
                                                     !.format = getStructureSources[t.src + 1],
                                                     !.isReference = FALSE, !.transform = Null,
                                                     !.color = 0]]
          /\ last' = Step(t.action, t.id, "retry", << >>)
    /\ UNCHANGED << plugin, bridge, viewerState, loadsOk, loadFailed >>

\* loadStructure giving up at the first source that fails.
structureLoadFailed_anySource(limit, i) ==
    /\ i \in DOMAIN tasks
    /\ Rejects(limit)
    /\ IsStructureLoad(tasks[i])
    /\ tasks[i].pc \in { "acquire", "transform", "repr" }
    /\ Throw(tasks[i].action, tasks[i].id, FailureMessage(tasks[i]))
    /\ tasks' = RemoveAt(tasks, i)
    /\ loadFailed' = TRUE
    /\ UNCHANGED << plugin, bridge, viewerState, loadsOk >>

\* An await of a structure load rejected and no source is left: the method
\* throws and the bridge posts the error.
structureLoadFailed(limit, i) ==
    /\ i \in DOMAIN tasks
    /\ Rejects(limit)
    /\ IsStructureLoad(tasks[i])
    /\ tasks[i].pc \in { "acquire", "transform", "repr" }
    /\ tasks[i].op = "loadStructure" => tasks[i].src = Len(getStructureSources)
    /\ Throw(tasks[i].action, tasks[i].id, FailureMessage(tasks[i]))
    /\ tasks' = RemoveAt(tasks, i)
    /\ loadFailed' = TRUE
    /\ UNCHANGED << plugin, bridge, viewerState, loadsOk >>

\* -------------------------------------------------------- volume loads

IsVolumeLoad(t) == t.op \in { "loadVolumeFromUrl", "loadLocalVolume" }

\* Both volume loaders up to their first await: the plugin check, the item
\* identifier, getNextColor, then the download.
StartVolumeLoad(limit, action, op, id, isoValue) ==
    /\ Accepts(limit)
    /\ IF plugin
       THEN /\ colorIndex' = colorIndex + 1
            /\ tasks' = Append(tasks, [Task(action, op, id)
                                          EXCEPT !.color = getNextColor, !.isoValue = isoValue])
            /\ last' = Step(action, id, "suspended", << >>)
            /\ UNCHANGED loadFailed
       ELSE /\ Throw(action, id, << "Viewer not initialized" >>)
            /\ loadFailed' = TRUE
            /\ UNCHANGED << colorIndex, tasks >>
    /\ UNCHANGED << plugin, bridge, referenceStructureId, referenceVolumeId, referenceType,
                    structureTransforms, loadedItems, loadsOk >>

\* The loadEmdbMap command: loadEmdbMap builds the url and the label EMD-<id>
\* and calls loadVolumeFromUrl.
loadEmdbMap(limit, emdbId, isoValue) ==
    StartVolumeLoad(limit, "loadEmdbMap", "loadVolumeFromUrl", EmdbItemId(emdbId), isoValue)

\* The load_volume command as src/embed/bridge.ts handles it.
loadVolumeFromUrl(limit, name) ==
    /\ bridge = "embed"
    /\ StartVolumeLoad(limit, "load_volume", "loadVolumeFromUrl", name, DefaultIsoValue)

\* The load_volume command as the handler in src/index.ts handles it.
loadLocalVolume(limit, name) ==
    /\ bridge = "index"
    /\ StartVolumeLoad(limit, "load_volume", "loadLocalVolume", name, DefaultIsoValue)

\* The first-item test of loadLocalVolume without its structure half.
isFirstItem_ignoresStructure == referenceVolumeId = Null

\* const isFirstItem = !this.referenceStructure && !this.referenceVolume
isFirstItem == referenceStructureId = Null /\ referenceVolumeId = Null

\* The inversion test with <= in place of <.
IsInvertedGrid_nonStrict(stats) == 2 * stats.max <= Abs(stats.min)

\* stats.max < Math.abs(stats.min) * 0.5
IsInvertedGrid(stats) == 2 * stats.max < Abs(stats.min)

\* The volume is downloaded and parsed.  loadLocalVolume reads the statistics,
\* flips the threshold of an inverted grid and, as first item, becomes the
\* anchor; both loaders centre the volume on a reference structure, which
\* awaits a commit unless the translation is below 0.1.
volumeAcquiredFrom(i, grids) ==
    /\ i \in DOMAIN tasks
    /\ IsVolumeLoad(tasks[i])
    /\ tasks[i].pc = "acquire"
    /\ \E grid \in grids, moved \in BOOLEAN :
          LET t == tasks[i]
              local == t.op = "loadLocalVolume"
              actualIsoValue == IF local /\ IsInvertedGrid(grid)
                                THEN -Abs(t.isoValue) ELSE t.isoValue
              centring == referenceStructureId # Null /\ moved
          IN /\ referenceStructureId = Null => ~moved
             /\ tasks' = [tasks EXCEPT ![i] =
                            [t EXCEPT !.pc = IF centring THEN "center" ELSE "repr",
                                      !.grid = grid, !.isoValue = actualIsoValue,
                                      !.isReference = local /\ isFirstItem]]
             /\ IF local /\ isFirstItem
                THEN referenceVolumeId' = t.id /\ referenceType' = "volume"
                ELSE UNCHANGED << referenceVolumeId, referenceType >>
             /\ last' = Step(t.action, t.id, "resumed", << >>)
    /\ UNCHANGED << plugin, bridge, spent, referenceStructureId, structureTransforms, loadedItems,
                    colorIndex, loadsOk, loadFailed >>

volumeAcquired(i) == volumeAcquiredFrom(i, Grids)

\* centerVolumeOnReference returned (it swallows its own failures).
volumeCentered(i) ==
    /\ i \in DOMAIN tasks
    /\ IsVolumeLoad(tasks[i])
    /\ tasks[i].pc = "center"
    /\ tasks' = [tasks EXCEPT ![i].pc = "repr"]
    /\ last' = Step(tasks[i].action, tasks[i].id, "resumed", << >>)
    /\ UNCHANGED << plugin, bridge, spent, viewerState, loadsOk, loadFailed >>

MapItem(t) ==
    IF t.op = "loadLocalVolume"
    THEN [type |-> "map", id |-> t.id, visible |-> TRUE, color |-> t.color,
          isoValue |-> t.isoValue, stats |-> t.grid, isInverted |-> IsInvertedGrid(t.grid)]
    ELSE [type |-> "map", id |-> t.id, visible |-> TRUE, color |-> t.color,
          isoValue |-> t.isoValue, stats |-> t.grid]

\* A loader that registers its item only once every command posted before it
\* has ended.
volumeRepresented_waitsItsTurn(i) ==
    /\ i = 1
    /\ i \in DOMAIN tasks
    /\ IsVolumeLoad(tasks[i])
    /\ tasks[i].pc = "repr"
    /\ LET t == tasks[i]
           item == MapItem(t)
       IN /\ loadedItems' = MapSet(loadedItems, item)
          /\ tasks' = Detach(RemoveAt(tasks, i), {t.id})
          /\ last' = Step(t.action, t.id, "done",
                          notifyChange(loadedItems') \o << MapLoaded(item) >>)
    /\ loadsOk' = loadsOk + 1
    /\ UNCHANGED << plugin, bridge, spent, referenceStructureId, referenceVolumeId, referenceType,
                    structureTransforms, colorIndex, loadFailed >>

\* The handler posting mapLoaded ahead of the subscription's itemsChanged.
volumeRepresented_postsBeforeNotify(i) ==
    /\ i \in DOMAIN tasks
    /\ IsVolumeLoad(tasks[i])
    /\ tasks[i].pc = "repr"
    /\ LET t == tasks[i]
           item == MapItem(t)
       IN /\ loadedItems' = MapSet(loadedItems, item)
          /\ tasks' = Detach(RemoveAt(tasks, i), {t.id})
          /\ last' = Step(t.action, t.id, "done",
                          << MapLoaded(item) >> \o notifyChange(loadedItems'))
    /\ loadsOk' = loadsOk + 1
    /\ UNCHANGED << plugin, bridge, spent, referenceStructureId, referenceVolumeId, referenceType,
                    structureTransforms, colorIndex, loadFailed >>

\* createVolumeRepresentation returned: the item is registered, observers are
\* notified, and the bridge posts mapLoaded.
volumeRepresented(i) ==
    /\ i \in DOMAIN tasks
    /\ IsVolumeLoad(tasks[i])
    /\ tasks[i].pc = "repr"
    /\ LET t == tasks[i]
           item == MapItem(t)
       IN /\ loadedItems' = MapSet(loadedItems, item)
          /\ tasks' = Detach(RemoveAt(tasks, i), {t.id})
          /\ last' = Step(t.action, t.id, "done",
                          notifyChange(loadedItems') \o << MapLoaded(item) >>)
    /\ loadsOk' = loadsOk + 1
    /\ UNCHANGED << plugin, bridge, spent, referenceStructureId, referenceVolumeId, referenceType,
                    structureTransforms, colorIndex, loadFailed >>

\* A volume loader that registers its item before the await of
\* createVolumeRepresentation, which then rejects.
volumeLoadFailed_afterWrite(limit, i) ==
    /\ i \in DOMAIN tasks
    /\ Rejects(limit)
    /\ IsVolumeLoad(tasks[i])
    /\ tasks[i].pc \in { "acquire", "repr" }
    /\ Throw(tasks[i].action, tasks[i].id, FailureMessage(tasks[i]))
    /\ tasks' = RemoveAt(tasks, i)
    /\ loadFailed' = TRUE
    /\ loadedItems' = IF tasks[i].pc = "repr" THEN MapSet(loadedItems, MapItem(tasks[i]))
                      ELSE loadedItems
    /\ UNCHANGED << plugin, bridge, referenceStructureId, referenceVolumeId, referenceType,
                    structureTransforms, colorIndex, loadsOk >>

\* The download, the parse or createVolumeRepresentation rejected: the loader
\* rethrows and the bridge posts the error.
volumeLoadFailed(limit, i) ==
    /\ i \in DOMAIN tasks
    /\ Rejects(limit)
    /\ IsVolumeLoad(tasks[i])
    /\ tasks[i].pc \in { "acquire", "repr" }
    /\ Throw(tasks[i].action, tasks[i].id, FailureMessage(tasks[i]))
    /\ tasks' = RemoveAt(tasks, i)
    /\ loadFailed' = TRUE
    /\ UNCHANGED << plugin, bridge, viewerState, loadsOk >>

\* ---------------------------------------------- mutations with an await

\* setItemColor / setMapIsoValue / deleteItem up to their await: the plugin
\* check, the lookup (and for setMapIsoValue the type check), then the call
\* into the collaborator.
StartOnItem(limit, action, op, id, applies, color, isoValue) ==
    /\ Accepts(limit)
    /\ IF plugin /\ Has(loadedItems, id) /\ applies
       THEN /\ tasks' = Append(tasks, [Task(action, op, id)
                                          EXCEPT !.pc = "update", !.color = color,
                                                 !.isoValue = isoValue])
            /\ last' = Step(action, id, "suspended", << >>)
       ELSE /\ tasks' = tasks
            /\ last' = Step(action, id, "ignored", << >>)
    /\ UNCHANGED << plugin, bridge, viewerState, loadsOk, loadFailed >>

setItemColor(limit, id, color) ==
    StartOnItem(limit, "setColor", "setItemColor", id, TRUE, color, 0)

\* setMapIsoValue without `item.type !== 'map'`.
setMapIsoValue_anyType(limit, id, isoValue) ==
    StartOnItem(limit, "setIsoValue", "setMapIsoValue", id, TRUE, 0, isoValue)

setMapIsoValue(limit, id, isoValue) ==
    StartOnItem(limit, "setIsoValue", "setMapIsoValue", id,
                Has(loadedItems, id) /\ Get(loadedItems, id).type = "map", 0, isoValue)

deleteItem(limit, id) ==
    StartOnItem(limit, "deleteItem", "deleteItem", id, TRUE, 0, 0)

\* The update written back with loadedItems.set, which puts a dropped item
\* back into the registry.
Assign_reinserts(i, field, value) ==
    /\ loadedItems' = IF tasks[i].stale
                      THEN MapSet(loadedItems, [tasks[i].item EXCEPT ![field] = value])
                      ELSE [loadedItems EXCEPT ![IndexOf(loadedItems, tasks[i].id)][field] = value]
    /\ tasks' = RemoveAt(tasks, i)
    /\ last' = Step(tasks[i].action, tasks[i].id, "done", notifyChange(loadedItems'))

\* `item.field = value` on the object the method holds: it changes the
\* registry only while the registry still holds that object.
Assign(i, field, value) ==
    /\ loadedItems' = IF tasks[i].stale THEN loadedItems
                      ELSE [loadedItems EXCEPT ![IndexOf(loadedItems, tasks[i].id)][field] = value]
    /\ tasks' = RemoveAt(tasks, i)
    /\ last' = Step(tasks[i].action, tasks[i].id, "done", notifyChange(loadedItems'))

\* setItemColor taking the colour from the cursor's palette position as a
\* load does, which advances the cursor.
itemColorUpdated_advancesCursor(i) ==
    /\ i \in DOMAIN tasks
    /\ tasks[i].op = "setItemColor"
    /\ Assign(i, "color", tasks[i].color)
    /\ colorIndex' = colorIndex + 1
    /\ UNCHANGED << plugin, bridge, spent, referenceStructureId, referenceVolumeId, referenceType,
                    structureTransforms, loadsOk, loadFailed >>

\* updateStructureColor / updateVolumeColor returned.
itemColorUpdated(i) ==
    /\ i \in DOMAIN tasks
    /\ tasks[i].op = "setItemColor"
    /\ Assign(i, "color", tasks[i].color)
    /\ UNCHANGED << plugin, bridge, spent, referenceStructureId, referenceVolumeId, referenceType,
                    structureTransforms, colorIndex, loadsOk, loadFailed >>

\* updateVolumeIsoValue returned.
mapIsoValueUpdated(i) ==
    /\ i \in DOMAIN tasks
    /\ tasks[i].op = "setMapIsoValue"
    /\ Assign(i, "isoValue", tasks[i].isoValue)
    /\ UNCHANGED << plugin, bridge, spent, referenceStructureId, referenceVolumeId, referenceType,
                    structureTransforms, colorIndex, loadsOk, loadFailed >>

\* The promotion loop flagging the last structure it meets, not the first.
Promote_lastStructure(items, itemId) ==
    LET others == { k \in DOMAIN items : items[k].type = "structure" /\ items[k].id # itemId }
    IN IF others = {} THEN items
       ELSE LET final == CHOOSE k \in others : \A m \in others : k >= m
            IN [items EXCEPT ![final].isReference = TRUE]

\* The promotion loop of deleteItem: the first structure in insertion order
\* other than the deleted one is flagged.
Promote(items, itemId) ==
    LET others == { k \in DOMAIN items : items[k].type = "structure" /\ items[k].id # itemId }
    IN IF others = {} THEN items
       ELSE LET first == CHOOSE k \in others : \A m \in others : k <= m
            IN [items EXCEPT ![first].isReference = TRUE]

\* deleteItem without `this.structureTransforms.delete(itemId)`.
itemRemoved_keepsTransform(i) ==
    /\ i \in DOMAIN tasks
    /\ tasks[i].op = "deleteItem"
    /\ LET t == tasks[i]
           item == HeldItem(t)
           wasReference == item.type = "structure" /\ item.isReference
       IN /\ referenceStructureId' = IF wasReference THEN Null ELSE referenceStructureId
          /\ loadedItems' = MapDelete(IF wasReference THEN Promote(loadedItems, t.id)
                                      ELSE loadedItems, t.id)
          /\ structureTransforms' = structureTransforms
          /\ tasks' = Detach(RemoveAt(tasks, i), {t.id})
          /\ last' = Step(t.action, t.id, "done", notifyChange(loadedItems'))
    /\ UNCHANGED << plugin, bridge, spent, referenceVolumeId, referenceType, colorIndex,
                    loadsOk, loadFailed >>

\* deleteItem handing the deleted item's colour back to the cursor.
itemRemoved_reclaimsColour(i) ==
    /\ i \in DOMAIN tasks
    /\ tasks[i].op = "deleteItem"
    /\ LET t == tasks[i]
           item == HeldItem(t)
           wasReference == item.type = "structure" /\ item.isReference
       IN /\ referenceStructureId' = IF wasReference THEN Null ELSE referenceStructureId
          /\ loadedItems' = MapDelete(IF wasReference THEN Promote(loadedItems, t.id)
                                      ELSE loadedItems, t.id)
          /\ structureTransforms' = TransformDelete(structureTransforms, t.id)
          /\ tasks' = Detach(RemoveAt(tasks, i), {t.id})
          /\ last' = Step(t.action, t.id, "done", notifyChange(loadedItems'))
    /\ colorIndex' = IF colorIndex > 0 THEN colorIndex - 1 ELSE 0
    /\ UNCHANGED << plugin, bridge, spent, referenceVolumeId, referenceType,
                    loadsOk, loadFailed >>

\* RemoveObject returned: deleteItem drops the reference if the object it
\* holds is flagged, promotes, and deletes the entry and the transform.
itemRemoved(i) ==
    /\ i \in DOMAIN tasks
    /\ tasks[i].op = "deleteItem"
    /\ LET t == tasks[i]
           item == HeldItem(t)
           wasReference == item.type = "structure" /\ item.isReference
       IN /\ referenceStructureId' = IF wasReference THEN Null ELSE referenceStructureId
          /\ loadedItems' = MapDelete(IF wasReference THEN Promote(loadedItems, t.id)
                                      ELSE loadedItems, t.id)
          /\ structureTransforms' = TransformDelete(structureTransforms, t.id)
          /\ tasks' = Detach(RemoveAt(tasks, i), {t.id})
          /\ last' = Step(t.action, t.id, "done", notifyChange(loadedItems'))
    /\ UNCHANGED << plugin, bridge, spent, referenceVolumeId, referenceType, colorIndex,
                    loadsOk, loadFailed >>

\* clear up to its await: the plugin check, then RemoveObject on the root.
clear(limit) ==
    /\ Accepts(limit)
    /\ IF plugin
       THEN /\ tasks' = Append(tasks, [Task("clear", "clear", Null) EXCEPT !.pc = "update"])
            /\ last' = Step("clear", Null, "suspended", << >>)
       ELSE /\ tasks' = tasks
            /\ last' = Step("clear", Null, "ignored", << >>)
    /\ UNCHANGED << plugin, bridge, viewerState, loadsOk, loadFailed >>

\* clear without `this.colorIndex = 0`.
cleared_keepsCursor(i) ==
    /\ i \in DOMAIN tasks
    /\ tasks[i].op = "clear"
    /\ referenceStructureId' = Null
    /\ referenceVolumeId' = Null
    /\ referenceType' = Null
    /\ structureTransforms' = NoTransforms
    /\ loadedItems' = << >>
    /\ colorIndex' = colorIndex
    /\ tasks' = Detach(RemoveAt(tasks, i), Ids(loadedItems))
    /\ last' = Step("clear", Null, "done", notifyChange(loadedItems'))
    /\ loadsOk' = 0
    /\ loadFailed' = FALSE
    /\ UNCHANGED << plugin, bridge, spent >>

\* clear aborting the loads that are suspended when it completes.
cleared_cancelsLoads(i) ==
    /\ i \in DOMAIN tasks
    /\ tasks[i].op = "clear"
    /\ referenceStructureId' = Null
    /\ referenceVolumeId' = Null
    /\ referenceType' = Null
    /\ structureTransforms' = NoTransforms
    /\ loadedItems' = << >>
    /\ colorIndex' = 0
    /\ tasks' = SelectSeq(Detach(RemoveAt(tasks, i), Ids(loadedItems)),
                          LAMBDA t : ~IsLoad(t.action))
    /\ last' = Step("clear", Null, "done", notifyChange(loadedItems'))
    /\ loadsOk' = 0
    /\ loadFailed' = FALSE
    /\ UNCHANGED << plugin, bridge, spent >>

\* RemoveObject returned: clear resets everything and notifies.
cleared(i) ==
    /\ i \in DOMAIN tasks
    /\ tasks[i].op = "clear"
    /\ referenceStructureId' = Null
    /\ referenceVolumeId' = Null
    /\ referenceType' = Null
    /\ structureTransforms' = NoTransforms
    /\ loadedItems' = << >>
    /\ colorIndex' = 0
    /\ tasks' = Detach(RemoveAt(tasks, i), Ids(loadedItems))
    /\ last' = Step("clear", Null, "done", notifyChange(loadedItems'))
    /\ loadsOk' = 0
    /\ loadFailed' = FALSE
    /\ UNCHANGED << plugin, bridge, spent >>

\* setItemColor / setMapIsoValue writing the field before the await that
\* rejects.
mutationFailed_afterWrite(limit, i) ==
    /\ i \in DOMAIN tasks
    /\ Rejects(limit)
    /\ tasks[i].op \in { "setItemColor", "setMapIsoValue", "deleteItem", "clear" }
    /\ Throw(tasks[i].action, tasks[i].id, FailureMessage(tasks[i]))
    /\ tasks' = RemoveAt(tasks, i)
    /\ loadedItems' =
          IF tasks[i].op \in { "setItemColor", "setMapIsoValue" } /\ ~tasks[i].stale
          THEN IF tasks[i].op = "setItemColor"
               THEN [loadedItems EXCEPT ![IndexOf(loadedItems, tasks[i].id)].color = tasks[i].color]
               ELSE [loadedItems EXCEPT ![IndexOf(loadedItems, tasks[i].id)].isoValue = tasks[i].isoValue]
          ELSE loadedItems
    /\ UNCHANGED << plugin, bridge, referenceStructureId, referenceVolumeId, referenceType,
                    structureTransforms, colorIndex, loadsOk, loadFailed >>

\* The collaborator rejected the update or the removal: the method throws
\* before it touches the registry and the bridge posts the error.
mutationFailed(limit, i) ==
    /\ i \in DOMAIN tasks
    /\ Rejects(limit)
    /\ tasks[i].op \in { "setItemColor", "setMapIsoValue", "deleteItem", "clear" }
    /\ Throw(tasks[i].action, tasks[i].id, FailureMessage(tasks[i]))
    /\ tasks' = RemoveAt(tasks, i)
    /\ UNCHANGED << plugin, bridge, viewerState, loadsOk, loadFailed >>

\* ------------------------------------------------------ specifications

\* A suspended structure load resumes.
ResumeStructureLoad(limit) ==
    \E i \in 1 .. limit[1] :
        \/ structureAcquired(i)
        \/ structureTransformed(i)
        \/ structureCentered(i)
        \/ structureRepresented(i)
        \/ sourceFailed(limit, i)
        \/ structureLoadFailed(limit, i)

\* A suspended volume load resumes.
ResumeVolumeLoad(limit) ==
    \E i \in 1 .. limit[1] :
        \/ volumeAcquired(i)
        \/ volumeCentered(i)
        \/ volumeRepresented(i)
        \/ volumeLoadFailed(limit, i)

\* A suspended setColor, setIsoValue, deleteItem or clear resumes.
ResumeMutation(limit) ==
    \E i \in 1 .. limit[1] :
        \/ itemColorUpdated(i)
        \/ mapIsoValueUpdated(i)
        \/ itemRemoved(i)
        \/ cleared(i)
        \/ mutationFailed(limit, i)

\* The host posts a load command.
LoadCommand(limit) ==
    \/ \E pdbId \in PdbIds : loadStructure(limit, pdbId)
    \/ \E name \in UrlNames, format \in UrlFormats : loadStructureFromUrl(limit, name, format)
    \/ \E emdbId \in EmdbIds : loadEmdbMap(limit, emdbId, DefaultIsoValue)
    \/ \E name \in UrlNames : loadVolumeFromUrl(limit, name)
    \/ \E name \in UrlNames : loadLocalVolume(limit, name)

\* The host posts any other command.
OtherCommand(limit) ==
    \/ \E id \in ItemIds, visible \in BOOLEAN : setItemVisibility(limit, id, visible)
    \/ \E id \in ItemIds, color \in ColorArgs : setItemColor(limit, id, color)
    \/ \E id \in ItemIds, isoValue \in IsoArgs : setMapIsoValue(limit, id, isoValue)
    \/ \E id \in ItemIds : deleteItem(limit, id)
    \/ clear(limit)
    \/ getItems(limit)
    \/ \E action \in UnknownActions : unknownCommand(limit, action)

Start == \E version \in BridgeVersions : initBridge(version)

\* Any commands, overlapping at their awaits.
Next ==
    \/ Start
    \/ LoadCommand(<< MaxInFlight, MaxEvents >>)
    \/ OtherCommand(<< MaxInFlight, MaxEvents >>)
    \/ ResumeStructureLoad(<< MaxInFlight, MaxEvents >>)
    \/ ResumeVolumeLoad(<< MaxInFlight, MaxEvents >>)
    \/ ResumeMutation(<< MaxInFlight, MaxEvents >>)

Spec == Init /\ [][Next]_vars

\* Any commands, each run to completion before the next one is posted.
SeqNext ==
    \/ Start
    \/ LoadCommand(<< 1, MaxSeqEvents >>)
    \/ OtherCommand(<< 1, MaxSeqEvents >>)
    \/ ResumeStructureLoad(<< 1, MaxSeqEvents >>)
    \/ ResumeVolumeLoad(<< 1, MaxSeqEvents >>)
    \/ ResumeMutation(<< 1, MaxSeqEvents >>)

SeqSpec == Init /\ [][SeqNext]_vars

\* Load commands only, overlapping at their awaits.
LoadNext ==
    \/ Start
    \/ LoadCommand(<< MaxInFlight, MaxLoadEvents >>)
    \/ ResumeStructureLoad(<< MaxInFlight, MaxLoadEvents >>)
    \/ ResumeVolumeLoad(<< MaxInFlight, MaxLoadEvents >>)

LoadSpec == Init /\ [][LoadNext]_vars

\* Structures loaded from urls and deleted, one command at a time and with a
\* collaborator that never rejects.
RefNext ==
    \/ Start
    \/ \E name \in RefNames : loadStructureFromUrl(<< 1, MaxRefEvents >>, name, "pdb")
    \/ \E name \in RefNames : deleteItem(<< 1, MaxRefEvents >>, name)
    \/ structureAcquired(1)
    \/ structureTransformed(1)
    \/ structureRepresented(1)
    \/ itemRemoved(1)

RefSpec == Init /\ [][RefNext]_vars

\* A few commands on one structure and one map, overlapping at their awaits.
AsyncNext ==
    \/ Start
    \/ loadStructure(<< MaxInFlight, MaxAsyncEvents >>, "A")
    \/ loadStructureFromUrl(<< MaxInFlight, MaxAsyncEvents >>, "A", "pdb")
    \/ loadVolumeFromUrl(<< MaxInFlight, MaxAsyncEvents >>, "M")
    \/ loadLocalVolume(<< MaxInFlight, MaxAsyncEvents >>, "M")
    \/ \E id \in AsyncIds, color \in ColorArgs :
          setItemColor(<< MaxInFlight, MaxAsyncEvents >>, id, color)
    \/ \E isoValue \in IsoArgs : setMapIsoValue(<< MaxInFlight, MaxAsyncEvents >>, "M", isoValue)
    \/ \E id \in AsyncIds : deleteItem(<< MaxInFlight, MaxAsyncEvents >>, id)
    \/ clear(<< MaxInFlight, MaxAsyncEvents >>)
    \/ ResumeStructureLoad(<< MaxInFlight, MaxAsyncEvents >>)
    \/ ResumeVolumeLoad(<< MaxInFlight, MaxAsyncEvents >>)
    \/ ResumeMutation(<< MaxInFlight, MaxAsyncEvents >>)

AsyncSpec == Init /\ [][AsyncNext]_vars

\* Loads and a recolouring with a collaborator that may reject every source of
\* a load, overlapping at their awaits.
FailNext ==
    \/ Start
    \/ loadStructure(<< MaxInFlight, MaxFailEvents >>, "A")
    \/ loadVolumeFromUrl(<< MaxInFlight, MaxFailEvents >>, "M")
    \/ loadLocalVolume(<< MaxInFlight, MaxFailEvents >>, "M")
    \/ \E color \in ColorArgs : setItemColor(<< MaxInFlight, MaxFailEvents >>, "A", color)
    \/ ResumeStructureLoad(<< MaxInFlight, MaxFailEvents >>)
    \/ ResumeVolumeLoad(<< MaxInFlight, MaxFailEvents >>)
    \/ \E i \in 1 .. MaxInFlight : itemColorUpdated(i)
    \/ \E i \in 1 .. MaxInFlight : mutationFailed(<< MaxInFlight, MaxFailEvents >>, i)

FailSpec == Init /\ [][FailNext]_vars

\* Any commands, one at a time, on a viewer that may be disposed between two
\* of them.
DisposeNext ==
    \/ Start
    \/ dispose
    \/ LoadCommand(<< 1, MaxDisposeEvents >>)
    \/ OtherCommand(<< 1, MaxDisposeEvents >>)
    \/ ResumeStructureLoad(<< 1, MaxDisposeEvents >>)
    \/ ResumeVolumeLoad(<< 1, MaxDisposeEvents >>)
    \/ ResumeMutation(<< 1, MaxDisposeEvents >>)

DisposeSpec == Init /\ [][DisposeNext]_vars

\* Structures and volumes loaded from urls and deleted, one command at a time,
\* with a collaborator that may reject a load.
AnchorNext ==
    \/ Start
    \/ \E name \in AnchorNames : loadStructureFromUrl(<< 1, MaxAnchorEvents >>, name, "pdb")
    \/ loadVolumeFromUrl(<< 1, MaxAnchorEvents >>, "M")
    \/ loadLocalVolume(<< 1, MaxAnchorEvents >>, "M")
    \/ \E id \in AnchorIds : deleteItem(<< 1, MaxAnchorEvents >>, id)
    \/ structureAcquired(1)
    \/ structureTransformed(1)
    \/ structureCentered(1)
    \/ structureRepresented(1)
    \/ structureLoadFailed(<< 1, MaxAnchorEvents >>, 1)
    \/ volumeAcquired(1)
    \/ volumeCentered(1)
    \/ volumeRepresented(1)
    \/ volumeLoadFailed(<< 1, MaxAnchorEvents >>, 1)
    \/ itemRemoved(1)

AnchorSpec == Init /\ [][AnchorNext]_vars

\* loadStructure commands overlapping at their awaits, with a collaborator
\* that may reject a source attempt while another source is left to try, so
\* that every command succeeds in the end.
RaceNext ==
    \/ Start
    \/ \E pdbId \in RaceIds : loadStructure(<< MaxInFlight, MaxRaceEvents >>, pdbId)
    \/ \E i \in 1 .. MaxInFlight :
          \/ structureAcquired(i)
          \/ structureTransformed(i)
          \/ structureRepresented(i)
          \/ sourceFailed(<< MaxInFlight, MaxRaceEvents >>, i)

RaceSpec == Init /\ [][RaceNext]_vars

\* The collaborator answers the call the i-th suspended command waits on (it
\* returns or it throws) and the command runs on to its next await or to
\* its end.
Resume(i) ==
    \/ structureAcquired(i)
    \/ structureTransformed(i)
    \/ structureCentered(i)
    \/ structureRepresented(i)
    \/ sourceFailed(<< MaxInFlight, MaxEvents >>, i)
    \/ structureLoadFailed(<< MaxInFlight, MaxEvents >>, i)
    \/ volumeAcquired(i)
    \/ volumeCentered(i)
    \/ volumeRepresented(i)
    \/ volumeLoadFailed(<< MaxInFlight, MaxEvents >>, i)
    \/ itemColorUpdated(i)
    \/ mapIsoValueUpdated(i)
    \/ itemRemoved(i)
    \/ cleared(i)
    \/ mutationFailed(<< MaxInFlight, MaxEvents >>, i)

\* Spec with a collaborator whose every call eventually returns or throws,
\* and an event loop that then runs the continuation.
LiveSpec == Spec /\ \A i \in 1 .. MaxInFlight : WF_vars(Resume(i))

\* ------------------------------------------------- threshold conversion

\* relativeToAbsolute: mean + relative * sigma.
relativeToAbsolute(relative, stats) == stats.mean + relative * stats.sigma

\* absoluteToRelative: (absolute - mean) / sigma.
absoluteToRelative(absolute, stats) == (absolute - stats.mean) \div stats.sigma

\* What a query returned, kept where a step keeps what it posted.
Returned(value) == [type |-> "returned", value |-> value]

\* getMapAbsoluteIsoValue handing back the stored relative threshold.
getMapAbsoluteIsoValue_unconverted(itemId) ==
    /\ last' = Step("getMapAbsoluteIsoValue", itemId, "done",
                    IF Has(loadedItems, itemId) /\ Get(loadedItems, itemId).type = "map"
                    THEN << Returned(Get(loadedItems, itemId).isoValue) >>
                    ELSE << >>)
    /\ UNCHANGED << plugin, bridge, viewerState, tasks, loadsOk, loadFailed, spent >>

\* getMapAbsoluteIsoValue: null (nothing kept) unless the item is a map.
getMapAbsoluteIsoValue(itemId) ==
    /\ last' = Step("getMapAbsoluteIsoValue", itemId, "done",
                    IF Has(loadedItems, itemId) /\ Get(loadedItems, itemId).type = "map"
                    THEN << Returned(relativeToAbsolute(Get(loadedItems, itemId).isoValue,
                                                        Get(loadedItems, itemId).stats)) >>
                    ELSE << >>)
    /\ UNCHANGED << plugin, bridge, viewerState, tasks, loadsOk, loadFailed, spent >>

\* The host converts the absolute threshold it was handed back to a relative
\* one, with the statistics of the same item.
toRelative(itemId) ==
    /\ last.action = "getMapAbsoluteIsoValue"
    /\ last.id = itemId
    /\ last.events # << >>
    /\ last' = Step("absoluteToRelative", itemId, "done",
                    << Returned(absoluteToRelative(last.events[1].value,
                                                   Get(loadedItems, itemId).stats)) >>)
    /\ UNCHANGED << plugin, bridge, viewerState, tasks, loadsOk, loadFailed, spent >>

\* A viewer holding one map, loaded from a url by the handler of
\* src/embed/bridge.ts and then given a threshold by setIsoValue.
IsoInit ==
    /\ plugin = TRUE
    /\ bridge = "embed"
    /\ referenceStructureId = Null
    /\ referenceVolumeId = Null
    /\ referenceType = Null
    /\ structureTransforms = NoTransforms
    /\ \E relative \in Thresholds, mean \in GridMeans, sigma \in GridSigmas :
          loadedItems = << [type |-> "map", id |-> "M", visible |-> TRUE,
                            color |-> COLOR_PALETTE[1], isoValue |-> relative,
                            stats |-> [min |-> -10, max |-> 10, mean |-> mean,
                                       sigma |-> sigma]] >>
    /\ colorIndex = 1
    /\ tasks = << >>
    /\ last = Step("setIsoValue", "M", "done", notifyChange(loadedItems))
    /\ loadsOk = 1
    /\ loadFailed = FALSE
    /\ spent = 0

IsoNext ==
    \/ \E itemId \in { "M", "A" } : getMapAbsoluteIsoValue(itemId)
    \/ toRelative("M")

IsoSpec == IsoInit /\ [][IsoNext]_vars

\* ------------------------------------------------------ inverted grids

\* A viewer whose loadLocalVolume was called with a relative threshold in
\* options.isoValue and is suspended at its download.
InvInit ==
    /\ plugin = TRUE
    /\ bridge = "index"
    /\ referenceStructureId = Null
    /\ referenceVolumeId = Null
    /\ referenceType = Null
    /\ structureTransforms = NoTransforms
    /\ loadedItems = << >>
    /\ colorIndex = 1
    /\ \E isoValue \in InvIsoValues :
          tasks = << [Task("load_volume", "loadLocalVolume", "M")
                        EXCEPT !.color = COLOR_PALETTE[1], !.isoValue = isoValue] >>
    /\ last = Step("load_volume", "M", "suspended", << >>)
    /\ loadsOk = 0
    /\ loadFailed = FALSE
    /\ spent = 1

InvNext ==
    \/ volumeAcquiredFrom(1, InvGrids)
    \/ volumeRepresented(1)

InvSpec == InvInit /\ [][InvNext]_vars

\* ------------------------------------------------------------ properties

\* An item carries the reference flag.
IsFlagged(item) == "isReference" \in DOMAIN item /\ item.isReference

Flagged(items) == { k \in DOMAIN items : IsFlagged(items[k]) }

\* The events of the latest step that have the given type.
Posted(type) == { k \in DOMAIN last.events : last.events[k].type = type }

\* C1: whenever no command is in flight, at most one registry item has
\* isReference = true, and that item is a structure.
C1_AtMostOneReference ==
    tasks = << >> =>
        /\ Cardinality(Flagged(loadedItems)) <= 1
        /\ \A k \in Flagged(loadedItems) : loadedItems[k].type = "structure"

\* C2: when the host posts load commands only (loads that fail and loads that
\* repeat an identifier included), no two registry items are flagged
\* isReference, and a flagged item is a structure.
C2_LoadsFlagAtMostOne ==
    /\ \A j, k \in Flagged(loadedItems) : j = k
    /\ \A k \in DOMAIN loadedItems :
          loadedItems[k].type = "map" => ~IsFlagged(loadedItems[k])

\* C2 happens: two structures are registered, the first is the reference and
\* the second is not.
C2_Witness ==
    /\ Len(loadedItems) = 2
    /\ loadedItems[1].type = "structure" /\ loadedItems[1].isReference
    /\ loadedItems[2].type = "structure" /\ ~loadedItems[2].isReference
    /\ referenceStructureId = loadedItems[1].id

\* C3: when deleteItem completes on an item flagged isReference while another
\* structure is registered, exactly one registered structure is flagged
\* isReference afterwards.
C3_DeleteReferencePromotesOne ==
    [][ \A i \in DOMAIN tasks :
          ( /\ itemRemoved(i)
            /\ IsFlagged(HeldItem(tasks[i]))
            /\ \E k \in DOMAIN loadedItems :
                  loadedItems[k].type = "structure" /\ loadedItems[k].id # tasks[i].id )
          => Cardinality(Flagged(loadedItems')) = 1 ]_vars

\* C4: while no load command has failed since construction or the latest
\* clear, the N-th load command to succeed is assigned
\* PALETTE[(N-1) mod len(PALETTE)].
C4_ColoursFollowLoadOrder ==
    ( IsLoad(last.action) /\ last.outcome = "done" /\ ~loadFailed ) =>
        \A k \in Posted("structureLoaded") \cup Posted("mapLoaded") :
            last.events[k].item.color =
                COLOR_PALETTE[((loadsOk - 1) % Len(COLOR_PALETTE)) + 1]

\* C5: when clear completes the registry is empty, there are no transform
\* records, there is no structure anchor and no volume anchor, the colour
\* cursor is 0, and one itemsChanged event with the empty list is posted.
C5_ClearResetsEverything ==
    ( last.action = "clear" /\ last.outcome = "done" ) =>
        /\ loadedItems = << >>
        /\ structureTransforms = NoTransforms
        /\ referenceStructureId = Null
        /\ referenceVolumeId = Null
        /\ referenceType = Null
        /\ colorIndex = 0
        /\ last.events = << ItemsChanged(<< >>) >>

\* C5 happens: clear completed while a load that had become the reference and
\* taken the first colour was still waiting for its representation.
C5_Witness ==
    /\ last.action = "clear" /\ last.outcome = "done"
    /\ \E i \in DOMAIN tasks :
          tasks[i].pc = "repr" /\ tasks[i].isReference /\ tasks[i].color = COLOR_PALETTE[1]
    /\ colorIndex = 0
    /\ referenceStructureId = Null

\* C6: a command whose action no case recognises yields exactly one error
\* event, whose action field names that action, and no itemsChanged event.
C6_UnknownCommandYieldsError ==
    last.action \in UnknownActions =>
        /\ Cardinality(Posted("error")) = 1
        /\ \A k \in Posted("error") : last.events[k].action = last.action
        /\ Posted("itemsChanged") = {}

\* C7: the step in which the operation dispatched for a command throws posts exactly one
\* event, an error whose action is the failing command's, so no
\* structureLoaded or mapLoaded; it ends that command only, leaving every
\* other command in flight as it was and the handler installed.
C7_ThrowIsIsolated ==
    [][ ( last'.outcome = "error" /\ last'.action \notin UnknownActions /\ spent' = spent + 1 ) =>
          /\ Len(last'.events) = 1
          /\ last'.events[1].type = "error"
          /\ \E i \in DOMAIN tasks :
                /\ last'.events[1].action = tasks[i].action
                /\ tasks' = RemoveAt(tasks, i)
          /\ bridge' = bridge
          /\ bridge' # Null ]_vars

\* C7 happens: a load_volume command has failed with its error posted while a
\* loadStructure command is still in flight.
C7_Witness ==
    /\ last.outcome = "error"
    /\ last.action = "load_volume"
    /\ last.events = << ErrorEvent("load_volume", last.events[1].message) >>
    /\ Len(tasks) = 1
    /\ tasks[1].action = "loadStructure"

\* Commands that change the registry when they succeed.
Mutations ==
    { "loadStructure", "loadEmdbMap", "load_structure", "load_volume",
      "setVisibility", "setColor", "setIsoValue", "deleteItem", "clear" }

\* C8: a step that changes the registry posts an itemsChanged event; a step
\* that completes a mutation or answers getItems posts exactly one; and the
\* payload of every itemsChanged event is the registry, in insertion order, as
\* it is when the event is posted.
C8_SnapshotAfterEveryMutation ==
    [][ /\ loadedItems' # loadedItems => Posted("itemsChanged")' # {}
        /\ ( last'.outcome = "done" /\ last'.action \in Mutations \cup { "getItems" } )
              => Cardinality(Posted("itemsChanged")') = 1
        /\ \A k \in Posted("itemsChanged")' : last'.events[k].items = loadedItems' ]_vars

\* C8 happens: the second of two loads has completed and its itemsChanged
\* event carries both items, the earlier one first.
C8_Witness ==
    /\ Len(loadedItems) = 2
    /\ IsLoad(last.action) /\ last.outcome = "done"
    /\ last.id = loadedItems[2].id
    /\ last.events[1] = ItemsChanged(loadedItems)

\* Commands that name an item.
ItemCommands == { "setVisibility", "setColor", "setIsoValue", "deleteItem" }

\* The step takes a command from the host (it is not the resumption or the
\* failure of one already in flight).
TakesCommand == spent' = spent + 1 /\ Len(tasks') >= Len(tasks)

\* C9: setVisibility, setColor, setIsoValue and deleteItem naming an
\* identifier the registry does not hold are ignored: no event is posted,
\* nothing throws or waits, and the registry, the reference state, the
\* transform records and the colour cursor are unchanged.
C9_MissingItemIsIgnored ==
    [][ ( TakesCommand /\ last'.action \in ItemCommands /\ ~Has(loadedItems, last'.id) ) =>
          /\ last'.events = << >>
          /\ last'.outcome # "error"
          /\ tasks' = tasks
          /\ viewerState' = viewerState ]_vars

\* C9 happens: the registry holds an item and a deleteItem naming another
\* identifier has been ignored.
C9_Witness ==
    /\ last.action = "deleteItem"
    /\ last.outcome = "ignored"
    /\ loadedItems # << >>
    /\ ~Has(loadedItems, last.id)

\* C10: setIsoValue naming a registered structure is a no-op: no event is
\* posted, nothing throws or waits, and the item and all other state are
\* unchanged.
C10_IsoValueOnStructureIsNoOp ==
    [][ ( /\ TakesCommand
          /\ last'.action = "setIsoValue"
          /\ Has(loadedItems, last'.id)
          /\ Get(loadedItems, last'.id).type = "structure" ) =>
          /\ last'.events = << >>
          /\ last'.outcome # "error"
          /\ tasks' = tasks
          /\ viewerState' = viewerState ]_vars

\* C10 happens: a setIsoValue naming a registered structure has been taken.
C10_Witness ==
    /\ last.action = "setIsoValue"
    /\ spent = 2
    /\ Has(loadedItems, last.id)
    /\ Get(loadedItems, last.id).type = "structure"
    /\ tasks = << >>

\* C11: when the collaborator rejects the update of a setColor or setIsoValue
\* command, the registry is left as it was (the entry keeps its color and
\* isoValue), no itemsChanged event is posted and exactly one error event is.
C11_FailedUpdateChangesNothing ==
    [][ ( /\ last'.outcome = "error"
          /\ last'.action \in { "setColor", "setIsoValue" }
          /\ spent' = spent + 1 ) =>
          /\ loadedItems' = loadedItems
          /\ Posted("itemsChanged")' = {}
          /\ Cardinality(Posted("error")') = 1
          /\ Len(last'.events) = 1 ]_vars

\* C11 happens: a setColor on a registered item has failed and the item still
\* has the palette colour it was loaded with.
C11_Witness ==
    /\ last.outcome = "error"
    /\ last.action = "setColor"
    /\ Has(loadedItems, last.id)
    /\ Get(loadedItems, last.id).color = COLOR_PALETTE[1]
    /\ Get(loadedItems, last.id).color \notin ColorArgs

\* C12: a load command writes the registry only in the step in which its
\* await of the representation returns, which is the step that ends the
\* command, and what it writes is the one item it then reports; the step in
\* which an await of a load rejects (a source given up or the whole load
\* failing) leaves the registry as it was and posts no itemsChanged event.
C12_NoPartialInsert ==
    [][ IsLoad(last'.action) =>
          /\ loadedItems' # loadedItems =>
                /\ last'.outcome = "done"
                /\ Len(tasks') = Len(tasks) - 1
                /\ \E i \in DOMAIN tasks : tasks[i].pc = "repr" /\ tasks[i].id = last'.id
                /\ \E k \in Posted("structureLoaded")' \cup Posted("mapLoaded")' :
                      loadedItems' = MapSet(loadedItems, last'.events[k].item)
          /\ last'.outcome \in { "error", "retry" } =>
                /\ loadedItems' = loadedItems
                /\ Posted("itemsChanged")' = {} ]_vars

\* C12 happens: a loadStructure command has failed on its last source after an
\* attempt that got as far as creating the representation (a colour was taken),
\* and the registry is empty.
C12_Witness ==
    /\ last.outcome = "error"
    /\ last.action = "loadStructure"
    /\ colorIndex > 0
    /\ loadedItems = << >>
    /\ tasks = << >>

\* The latest step completed a structure load; LoadedItem is the item it
\* reported.
StructureLoadDone ==
    last.outcome = "done" /\ last.action \in { "loadStructure", "load_structure" }

LoadedItem == last.events[2].item

\* C13: when commands run one at a time and no load command has failed, the
\* first load to succeed since construction or clear, if it is a structure
\* load, registers its item with isReference = true, records the identity
\* transform for it and anchors the engine on it; a structure load that
\* succeeds while another registered item is the flagged reference registers
\* its item with isReference = false.
C13_FirstStructureIsReference ==
    ( StructureLoadDone /\ ~loadFailed ) =>
        /\ loadsOk = 1 =>
              /\ LoadedItem.isReference
              /\ last.id \in DOMAIN structureTransforms
              /\ structureTransforms[last.id] = "identity"
              /\ referenceType = "structure"
              /\ referenceStructureId = last.id
        /\ ( /\ loadsOk > 1
             /\ referenceStructureId # last.id
             /\ Has(loadedItems, referenceStructureId)
             /\ IsFlagged(Get(loadedItems, referenceStructureId)) ) => ~LoadedItem.isReference

\* C14: when commands run one at a time and the superposition of a new
\* structure onto the reference gave no transform, the load completes: its
\* item is registered with isReference = false, the identity is the transform
\* recorded for it, structureLoaded is posted and no error event is.
C14_AlignmentFailureIsNotFatal ==
    [][ \A i \in DOMAIN tasks :
          ( /\ tasks[i].transform = "failed"
            /\ tasks[i].pc = "repr"
            /\ Len(tasks) = 1
            /\ tasks' = << >>
            /\ last'.outcome # "error" ) =>
          /\ last'.outcome = "done"
          /\ Has(loadedItems', tasks[i].id)
          /\ ~Get(loadedItems', tasks[i].id).isReference
          /\ tasks[i].id \in DOMAIN structureTransforms'
          /\ structureTransforms'[tasks[i].id] = "identity"
          /\ Cardinality(Posted("structureLoaded")') = 1
          /\ Posted("error")' = {} ]_vars

\* C14 happens: a structure was loaded beside a registered reference, it is
\* not flagged, and the transform recorded for it is the identity.
C14_Witness ==
    /\ StructureLoadDone
    /\ Len(loadedItems) = 2
    /\ referenceStructureId = loadedItems[1].id
    /\ loadedItems[1].isReference
    /\ last.id = loadedItems[2].id
    /\ ~LoadedItem.isReference
    /\ structureTransforms[last.id] = "identity"

\* C15: no two registry entries have the same identifier, whatever their
\* kinds; and when a load completes, the one entry for its identifier is the
\* item that load wrote.
C15_IdentifiersAreUnique ==
    /\ \A j, k \in DOMAIN loadedItems : loadedItems[j].id = loadedItems[k].id => j = k
    /\ ( IsLoad(last.action) /\ last.outcome = "done" ) =>
          \A k \in Posted("structureLoaded") \cup Posted("mapLoaded") :
              /\ Has(loadedItems, last.id)
              /\ Get(loadedItems, last.id) = last.events[k].item

\* C15 happens: a map was loaded under the identifier of a registered
\* structure, and the registry holds one entry, the map.
C15_Witness ==
    /\ last.action = "load_volume" /\ last.outcome = "done"
    /\ loadsOk = 2
    /\ Len(loadedItems) = 1
    /\ loadedItems[1].type = "map"
    /\ loadedItems[1].color = COLOR_PALETTE[2]
    /\ referenceStructureId = last.id

\* The loadStructure commands in flight.
StructureAttempts(ts) == { i \in DOMAIN ts : ts[i].op = "loadStructure" }

\* C16: a loadStructure command starts with the first source, bcif; a source
\* that fails is followed by the next one in the order bcif, mmcif, pdb; the
\* item of a load that succeeds carries the label of the source then being
\* tried and ends the command; and the command fails only on the last
\* source, with exactly one error event carrying that source's failure, the
\* registry unchanged.
C16_SourcesInOrder ==
    [][ last'.action = "loadStructure" =>
          /\ last'.outcome = "suspended" =>
                /\ tasks'[Len(tasks')].src = 1
                /\ tasks'[Len(tasks')].format = "bcif"
          /\ last'.outcome = "retry" =>
                /\ Len(tasks') = Len(tasks)
                /\ \E i \in StructureAttempts(tasks) :
                      /\ tasks'[i].src = tasks[i].src + 1
                      /\ tasks'[i].format = getStructureSources[tasks'[i].src]
                      /\ \A j \in DOMAIN tasks \ {i} : tasks'[j] = tasks[j]
          /\ last'.outcome = "done" =>
                /\ Len(tasks') = Len(tasks) - 1
                /\ \E i \in StructureAttempts(tasks) :
                      /\ tasks[i].pc = "repr"
                      /\ last'.events[2].item.format = getStructureSources[tasks[i].src]
          /\ last'.outcome = "error" =>
                /\ \E i \in StructureAttempts(tasks) :
                      /\ tasks[i].src = Len(getStructureSources)
                      /\ tasks' = RemoveAt(tasks, i)
                /\ Len(last'.events) = 1
                /\ last'.events[1].type = "error"
                /\ last'.events[1].message[2] = "pdb"
                /\ loadedItems' = loadedItems ]_vars

\* C16 happens: a loadStructure command has failed on bcif, mmcif and pdb in
\* turn and its error names the pdb failure.
C16_Witness ==
    /\ last.action = "loadStructure"
    /\ last.outcome = "error"
    /\ last.events[1].message[2] = "pdb"
    /\ spent = 4
    /\ tasks = << >>

\* C17: a command that is handled while the viewer has no plugin is answered
\* with an error event.
C17_UninitialisedFailsFast ==
    ( ~plugin /\ bridge # Null /\ last.action \in Mutations ) => Posted("error") # {}

\* C18: nothing is posted before initBridge runs; the step that installs the
\* handler posts ready and nothing else, with the plugin initialised; and no
\* later step posts ready again.
C18_ReadyOnceAndFirst ==
    /\ last.events = << >>
    /\ [][ /\ bridge = Null => ( last'.events = << Ready >> /\ plugin' /\ bridge' # Null )
           /\ bridge # Null => Posted("ready")' = {} ]_vars

\* C18 happens: the handler has just been installed on an initialised viewer
\* and ready is the one event posted so far.
C18_Witness ==
    /\ last.action = "initBridge"
    /\ last.events = << Ready >>
    /\ plugin
    /\ bridge # Null
    /\ spent = 0

C20_DeleteRemovesOnlyThatItem ==
    [][ ( /\ Len(tasks) = 1
          /\ tasks[1].op = "deleteItem"
          /\ tasks' = << >>
          /\ last'.outcome = "done"
          /\ Has(loadedItems, tasks[1].id)
          /\ ~IsFlagged(Get(loadedItems, tasks[1].id)) \/ Len(loadedItems) = 1 ) =>
          /\ loadedItems' = SelectSeq(loadedItems, LAMBDA it : it.id # tasks[1].id)
          /\ DOMAIN structureTransforms' = DOMAIN structureTransforms \ { tasks[1].id }
          /\ \A k \in DOMAIN structureTransforms' :
                structureTransforms'[k] = structureTransforms[k]
          /\ last'.events = << ItemsChanged(loadedItems') >>
          /\ Posted("error")' = {} ]_vars

\* C20 happens: of two structures loaded, the one that was not the reference
\* has been deleted; the reference is still registered, flagged and with its
\* transform record.
C20_Witness ==
    /\ last.action = "deleteItem" /\ last.outcome = "done"
    /\ loadsOk = 2
    /\ Len(loadedItems) = 1
    /\ loadedItems[1].type = "structure"
    /\ loadedItems[1].isReference
    /\ referenceStructureId = loadedItems[1].id
    /\ last.id # loadedItems[1].id
    /\ DOMAIN structureTransforms = { loadedItems[1].id }

\* The event a load command posts when it succeeds.
SuccessEvent(action) ==
    IF action \in { "loadStructure", "load_structure" } THEN "structureLoaded" ELSE "mapLoaded"

\* C21: the step that completes a load command posts exactly one typed
\* success event, structureLoaded for loadStructure / load_structure and
\* mapLoaded for loadEmdbMap / load_volume, carrying the item the registry
\* then holds for the identifier, and no error event; every other step posts
\* neither structureLoaded nor mapLoaded.
C21_OneTypedSuccessEvent ==
    IF IsLoad(last.action) /\ last.outcome = "done"
    THEN /\ Cardinality(Posted("structureLoaded") \cup Posted("mapLoaded")) = 1
         /\ Cardinality(Posted(SuccessEvent(last.action))) = 1
         /\ \A k \in Posted(SuccessEvent(last.action)) :
               /\ Has(loadedItems, last.id)
               /\ last.events[k].item = Get(loadedItems, last.id)
         /\ Posted("error") = {}
    ELSE Posted("structureLoaded") \cup Posted("mapLoaded") = {}

\* C21 happens: a loadEmdbMap command has completed after a structure load,
\* and the step posted mapLoaded with the registered map.
C21_Witness ==
    /\ last.action = "loadEmdbMap" /\ last.outcome = "done"
    /\ loadsOk = 2
    /\ Len(loadedItems) = 2
    /\ loadedItems[1].type = "structure"
    /\ last.events[2] = MapLoaded(loadedItems[2])

\* The registered structures other than the one with the given identifier.
OtherStructures(items, itemId) ==
    { k \in DOMAIN items : items[k].type = "structure" /\ items[k].id # itemId }

\* C22: when the removal of a deleteItem command returns for an item flagged
\* isReference, the one item whose flag is set by the step is the structure
\* that stands first in the registry's insertion order among the structures
\* left; no map is flagged afterwards, wherever it stands; and when no
\* structure is left no item is flagged.
C22_PromotionPicksFirstStructure ==
    [][ ( /\ Len(tasks) = 1
          /\ tasks[1].op = "deleteItem"
          /\ tasks' = << >>
          /\ last'.outcome = "done"
          /\ IsFlagged(HeldItem(tasks[1])) ) =>
          LET others == OtherStructures(loadedItems, tasks[1].id)
          IN /\ \A k \in others :
                   IsFlagged(Get(loadedItems', loadedItems[k].id)) =
                      ( IsFlagged(loadedItems[k]) \/ \A m \in others : k <= m )
             /\ \A k \in DOMAIN loadedItems' :
                   loadedItems'[k].type = "map" => ~IsFlagged(loadedItems'[k])
             /\ others = {} => Flagged(loadedItems') = {} ]_vars

\* C22 happens: a map was registered first, then the reference and another
\* structure; the reference has been deleted and the flag went to the
\* structure, which stands after the map.
C22_Witness ==
    /\ last.action = "deleteItem" /\ last.outcome = "done"
    /\ Len(loadedItems) = 2
    /\ loadedItems[1].type = "map"
    /\ loadedItems[2].type = "structure"
    /\ loadedItems[2].isReference
    /\ Flagged(loadedItems) = { 2 }
    /\ referenceStructureId = Null
    /\ loadsOk = 3

\* C23: whenever no command is in flight, the colour cursor equals the number
\* of load commands that have succeeded since construction or the latest
\* clear: a load that fails, or a source attempt that fails inside
\* loadStructure, takes no palette colour.
C23_CursorCountsSuccessfulLoads ==
    tasks = << >> => colorIndex = loadsOk

\* C24: the colour cursor goes down only in the step that completes a clear,
\* which sets it to 0; no step of a deleteItem, setColor, setVisibility or
\* setIsoValue command changes it; and a step that moves it up moves it by
\* one and hands a load command the palette colour at the cursor's old
\* position, so the load after a delete gets the next colour in sequence.
C24_CursorOnlyResetByClear ==
    [][ /\ colorIndex' < colorIndex =>
              ( last'.action = "clear" /\ last'.outcome = "done" /\ colorIndex' = 0 )
        /\ last'.action \in ItemCommands => colorIndex' = colorIndex
        /\ colorIndex' > colorIndex =>
              /\ colorIndex' = colorIndex + 1
              /\ IsLoad(last'.action)
              /\ \E i \in DOMAIN tasks' :
                    /\ tasks'[i].action = last'.action
                    /\ tasks'[i].id = last'.id
                    /\ tasks'[i].color = COLOR_PALETTE[(colorIndex % Len(COLOR_PALETTE)) + 1] ]_vars

\* C24 happens: the first structure loaded took the first colour and was
\* deleted; the structure loaded next is the only item, it is the reference,
\* and it carries the second colour.
C24_Witness ==
    /\ StructureLoadDone
    /\ last.action = "loadStructure"
    /\ spent = 3
    /\ loadsOk = 2
    /\ ~loadFailed
    /\ Len(loadedItems) = 1
    /\ loadedItems[1].isReference
    /\ loadedItems[1].color = COLOR_PALETTE[2]
    /\ colorIndex = 2

\* C25: in every state, while loads are suspended and after a load has failed
\* included, every identifier that has a transform record is the identifier
\* of a registered item.
C25_NoDanglingTransform ==
    DOMAIN structureTransforms \subseteq Ids(loadedItems)

\* C26: every registered structure has a transform record for its identifier
\* from its load until its deletion, structures loaded while a volume is the
\* anchor included.
C26_EveryStructureHasTransform ==
    \A k \in DOMAIN loadedItems :
        loadedItems[k].type = "structure" =>
            loadedItems[k].id \in DOMAIN structureTransforms

\* The latest step completed a volume load.
VolumeLoadDone ==
    last.outcome = "done" /\ last.action \in { "loadEmdbMap", "load_volume" }

\* C27: when commands run one at a time and the first load to succeed since
\* construction or clear is a volume load, whichever loader ran it, that
\* volume is the anchor afterwards; and a structure loaded next, the volume
\* still being the only other item, is not flagged isReference.
C27_FirstVolumeBecomesAnchor ==
    /\ ( VolumeLoadDone /\ loadsOk = 1 /\ ~loadFailed ) =>
          /\ referenceVolumeId = last.id
          /\ referenceType = "volume"
    /\ ( /\ StructureLoadDone /\ loadsOk = 2 /\ ~loadFailed
         /\ Len(loadedItems) = 2
         /\ loadedItems[1].type = "map" ) => ~LoadedItem.isReference

\* C28: when commands run one at a time and the removal of a deleteItem
\* command returns for the item that anchors the engine (the flagged
\* reference structure with no other structure registered, or the anchor
\* volume), the engine has neither a structure anchor nor a volume anchor
\* afterwards, so that the next load finds it Empty.
C28_DeletingAnchorClearsReference ==
    [][ ( /\ Len(tasks) = 1
          /\ tasks[1].op = "deleteItem"
          /\ tasks' = << >>
          /\ last'.outcome = "done"
          /\ Has(loadedItems, tasks[1].id)
          /\ \/ /\ IsFlagged(Get(loadedItems, tasks[1].id))
                /\ OtherStructures(loadedItems, tasks[1].id) = {}
             \/ /\ Get(loadedItems, tasks[1].id).type = "map"
                /\ referenceVolumeId = tasks[1].id ) =>
          /\ referenceStructureId' = Null
          /\ referenceVolumeId' = Null
          /\ isReference' ]_vars

\* C29: when two structure loads are in flight on an Empty engine and neither
\* has failed, the load whose registry write comes first is the one that
\* becomes the reference: its item is flagged isReference and the engine is
\* anchored on it, whichever command was posted first.
C29_FirstWriterBecomesReference ==
    ( /\ StructureLoadDone
      /\ loadsOk = 1
      /\ ~loadFailed
      /\ Len(loadedItems) = 1
      /\ Len(tasks) = 1
      /\ IsStructureLoad(tasks[1]) ) =>
        /\ LoadedItem.isReference
        /\ referenceStructureId = last.id

\* The engine has a structure anchor or a volume anchor.
Anchored == referenceStructureId # Null \/ referenceVolumeId # Null

\* C30: while the engine is anchored, no step of a load command, whether the
\* load goes on to succeed or to fail, changes the structure anchor or the
\* volume anchor, and every registered item is still registered afterwards
\* with the isReference flag it had.
C30_LoadsKeepTheAnchor ==
    [][ ( IsLoad(last'.action) /\ Anchored ) =>
          /\ referenceStructureId' = referenceStructureId
          /\ referenceVolumeId' = referenceVolumeId
          /\ \A k \in DOMAIN loadedItems :
                /\ Has(loadedItems', loadedItems[k].id)
                /\ IsFlagged(Get(loadedItems', loadedItems[k].id)) = IsFlagged(loadedItems[k]) ]_vars

\* C31: the step that completes a clear leaves every suspended load as it
\* was; the step in which a load's representation returns, after a clear as
\* at any other time, writes the load's item to the registry and posts
\* itemsChanged; and an identifier leaves the registry only in a step of a
\* deleteItem or a clear command.
C31_ClearDoesNotCancelLoads ==
    [][ /\ ( last'.action = "clear" /\ last'.outcome = "done" ) =>
              \A j \in DOMAIN tasks :
                  IsLoad(tasks[j].action) => \E k \in DOMAIN tasks' : tasks'[k] = tasks[j]
        /\ \A j \in DOMAIN tasks :
              ( /\ IsLoad(tasks[j].action)
                /\ tasks[j].pc = "repr"
                /\ tasks' = Detach(RemoveAt(tasks, j), {tasks[j].id})
                /\ last'.outcome = "done"
                /\ last'.id = tasks[j].id ) =>
                  /\ Has(loadedItems', tasks[j].id)
                  /\ Get(loadedItems', tasks[j].id).color = tasks[j].color
                  /\ last'.events[1] = ItemsChanged(loadedItems')
        /\ \A id \in Ids(loadedItems) \ Ids(loadedItems') :
              last'.action \in { "deleteItem", "clear" } ]_vars

\* C31 happens: a load took the first colour, a clear completed while the
\* load was suspended (the cursor is back at 0), and the load has then
\* written its item: the registry holds one item after the clear and no load
\* command was posted since.
C31_Witness ==
    /\ IsLoad(last.action) /\ last.outcome = "done"
    /\ colorIndex = 0
    /\ loadsOk = 1
    /\ Len(loadedItems) = 1
    /\ loadedItems[1].color = COLOR_PALETTE[1]
    /\ last.events[1] = ItemsChanged(loadedItems)
    /\ tasks = << >>

\* C32: when loadLocalVolume has parsed its grid, the threshold it goes on to
\* apply is -|r| for the caller's relative threshold r if the grid's
\* statistics satisfy max < 0.5 * |min|, and r unchanged otherwise; the item
\* it registers carries that threshold, and its isInverted is true exactly
\* for the grids that satisfy the test.
C32_InvertedGridNegatesThreshold ==
    [][ \A i \in DOMAIN tasks :
          /\ ( /\ tasks[i].op = "loadLocalVolume"
               /\ tasks[i].pc = "acquire"
               /\ i \in DOMAIN tasks'
               /\ tasks'[i].pc \in { "center", "repr" } ) =>
                 tasks'[i].isoValue =
                    IF 2 * tasks'[i].grid.max < Abs(tasks'[i].grid.min)
                    THEN 0 - Abs(tasks[i].isoValue)
                    ELSE tasks[i].isoValue
          /\ ( /\ tasks[i].op = "loadLocalVolume"
               /\ tasks[i].pc = "repr"
               /\ last'.outcome = "done"
               /\ tasks' = RemoveAt(tasks, i) ) =>
                 /\ Get(loadedItems', tasks[i].id).isoValue = tasks[i].isoValue
                 /\ Get(loadedItems', tasks[i].id).stats = tasks[i].grid
                 /\ Get(loadedItems', tasks[i].id).isInverted =
                       ( 2 * tasks[i].grid.max < Abs(tasks[i].grid.min) ) ]_vars

\* C32 happens: a grid with minimum -10 and maximum 2 was registered as
\* inverted with the threshold -2.0 (the caller passed 2.0 or -2.0).
C32_Witness ==
    /\ last.action = "load_volume" /\ last.outcome = "done"
    /\ Len(loadedItems) = 1
    /\ loadedItems[1].stats.min = -10
    /\ loadedItems[1].stats.max = 2
    /\ loadedItems[1].isInverted
    /\ loadedItems[1].isoValue = -20

\* C33: whenever no command is in flight, getReferenceId() returns the
\* identifier X if and only if the registry holds a structure with
\* identifier X whose isReference is true.
C33_ReferenceIdAgreesWithFlags ==
    tasks = << >> =>
        \A X \in ItemIds :
            ( getReferenceId = X ) <=>
                ( /\ Has(loadedItems, X)
                  /\ Get(loadedItems, X).type = "structure"
                  /\ IsFlagged(Get(loadedItems, X)) )

\* C34: in every state, under every interleaving of loads, deletes and
\* clears, the engine does not hold a structure anchor and a volume anchor
\* together, and referenceType names the kind of the anchor it holds.
C34_OneKindOfAnchor ==
    /\ ~( referenceStructureId # Null /\ referenceVolumeId # Null )
    /\ referenceStructureId # Null => referenceType = "structure"
    /\ referenceVolumeId # Null => referenceType = "volume"

\* C34 happens: a volume is the anchor and a structure loaded beside it is
\* registered without having become a structure anchor.
C34_Witness ==
    /\ referenceVolumeId = "M"
    /\ referenceStructureId = Null
    /\ Has(loadedItems, "A")
    /\ Get(loadedItems, "A").type = "structure"
    /\ ~Get(loadedItems, "A").isReference
    /\ StructureLoadDone

\* C35: in the step that completes a load command, an itemsChanged event
\* whose snapshot holds the new item is posted before the command's
\* structureLoaded or mapLoaded event, and nothing is posted ahead of that
\* itemsChanged event.
C35_SnapshotPrecedesLoadedEvent ==
    ( IsLoad(last.action) /\ last.outcome = "done" ) =>
        \A m \in Posted("structureLoaded") \cup Posted("mapLoaded") :
            /\ 1 \in Posted("itemsChanged")
            /\ 1 < m
            /\ \E k \in DOMAIN last.events[1].items :
                  last.events[1].items[k] = last.events[m].item

\* C35 happens: a load_structure command has completed; its step posted the
\* snapshot holding the new structure and then structureLoaded.
C35_Witness ==
    /\ last.action = "load_structure" /\ last.outcome = "done"
    /\ Len(last.events) = 2
    /\ last.events[1].type = "itemsChanged"
    /\ last.events[2].type = "structureLoaded"
    /\ last.events[1].items = << last.events[2].item >>

\* C36: no step of a setVisibility, setColor or setIsoValue command adds an
\* entry to the registry or removes one: the identifiers registered, and
\* their order, are the same before and after, also when the item the
\* command named was deleted or the registry cleared while the command was
\* suspended.
C36_MutationsKeepTheEntries ==
    [][ last'.action \in { "setVisibility", "setColor", "setIsoValue" } =>
          /\ Len(loadedItems') = Len(loadedItems)
          /\ \A k \in DOMAIN loadedItems : loadedItems'[k].id = loadedItems[k].id ]_vars

\* C36 happens: a setColor command has completed after the item it named
\* left the registry, and the registry does not hold that identifier.
C36_Witness ==
    /\ last.action = "setColor" /\ last.outcome = "done"
    /\ ~Has(loadedItems, last.id)
    /\ last.events = << ItemsChanged(loadedItems) >>

\* C37: a load that fails leaves the reference state as it was when the load
\* was issued; so when commands run one at a time and no load has succeeded
\* since construction or the latest clear, the engine has no structure
\* anchor and no volume anchor once the failed load has ended.
C37_FailedLoadKeepsReference ==
    ( tasks = << >> /\ loadsOk = 0 ) =>
        /\ referenceStructureId = Null
        /\ referenceVolumeId = Null
        /\ referenceType = Null

\* The field a mutation command writes.
NamedField(action) ==
    IF action = "setVisibility" THEN "visible"
    ELSE IF action = "setColor" THEN "color" ELSE "isoValue"

\* C38: no step of a setVisibility, setColor or setIsoValue command changes
\* the reference state, the transform records or the colour cursor; the
\* step that completes one leaves every registered item other than the one
\* it names as it was, and of that item every field other than the named
\* one (visible, color or isoValue); a step that does not complete one
\* leaves the registry as it was.
C38_MutationChangesOneField ==
    [][ last'.action \in { "setVisibility", "setColor", "setIsoValue" } =>
          /\ referenceStructureId' = referenceStructureId
          /\ referenceVolumeId' = referenceVolumeId
          /\ referenceType' = referenceType
          /\ structureTransforms' = structureTransforms
          /\ colorIndex' = colorIndex
          /\ Len(loadedItems') = Len(loadedItems)
          /\ last'.outcome # "done" => loadedItems' = loadedItems
          /\ \A k \in DOMAIN loadedItems :
                IF loadedItems[k].id = last'.id
                THEN /\ DOMAIN loadedItems'[k] = DOMAIN loadedItems[k]
                     /\ \A f \in DOMAIN loadedItems[k] \ { NamedField(last'.action) } :
                           loadedItems'[k][f] = loadedItems[k][f]
                ELSE loadedItems'[k] = loadedItems[k] ]_vars

\* C38 happens: setIsoValue has completed on a registered map: the map has
\* the new threshold and still the colour it was loaded with, and the cursor
\* is where the load left it.
C38_Witness ==
    /\ last.action = "setIsoValue" /\ last.outcome = "done"
    /\ Has(loadedItems, last.id)
    /\ Get(loadedItems, last.id).isoValue \in IsoArgs
    /\ Get(loadedItems, last.id).color = COLOR_PALETTE[1]
    /\ Get(loadedItems, last.id).visible
    /\ colorIndex = 1

\* C39: when two loadStructure commands with different identifiers have run
\* concurrently on an Empty engine and both have succeeded, both items are
\* registered, exactly one of them is flagged isReference, and their
\* colours come from two different cursor positions.
C39_ConcurrentLoadsOneReference ==
    ( /\ tasks = << >>
      /\ loadsOk = 2
      /\ ~loadFailed
      /\ Len(loadedItems) = 2
      /\ \A k \in DOMAIN loadedItems : loadedItems[k].type = "structure" ) =>
        /\ Cardinality(Flagged(loadedItems)) = 1
        /\ loadedItems[1].color # loadedItems[2].color

\* C40: if every call into the collaborator eventually returns or throws,
\* the commands in flight all come to an end; a load command ends only in a
\* step that posts structureLoaded, mapLoaded or error; and in every state
\* every suspended command can take its next step, whatever other commands
\* are in flight.
C40_EveryCommandCompletes ==
    /\ ( tasks # << >> ) ~> ( tasks = << >> )
    /\ [][ ( IsLoad(last'.action) /\ last'.outcome \in { "done", "error" } ) =>
              Posted("structureLoaded")' \cup Posted("mapLoaded")' \cup Posted("error")' # {} ]_vars
    /\ [][ ( IsLoad(last'.action) /\ Len(tasks') < Len(tasks) ) =>
              last'.outcome \in { "done", "error" } ]_vars
    /\ [] ( \A i \in 1 .. MaxInFlight : i \in DOMAIN tasks => ENABLED Resume(i) )

\* C40 happens: two commands were in flight together, the one posted second
\* has ended first, and now both have ended.
C40_Witness ==
    /\ tasks = << >>
    /\ spent = 2
    /\ loadsOk = 2
    /\ Len(loadedItems) = 2
    /\ loadedItems[1].type = "map"
    /\ loadedItems[2].type = "structure"
    /\ loadedItems[1].color = COLOR_PALETTE[2]
    /\ loadedItems[2].color = COLOR_PALETTE[1]

====
